---- MODULE Spec2Model ----
(***************************************************************************)
(* A model of the circuit analysis engine of circuit-maker:                *)
(*   - CircuitValidator (src/circuit_validator.py): connectivity graph,    *)
(*     connected networks, floating / missing-ground / missing-load        *)
(*     findings and the repair suggestions;                                *)
(*   - CircuitSolver (src/core/solver.py): node enumeration, MNA matrix    *)
(*     assembly, the linear solve, the returned voltage map and the        *)
(*     per-component currents;                                             *)
(*   - the components (src/components/*.py) as records.                    *)
(*                                                                         *)
(* Numbers.  The program computes in float64.  The model computes the same *)
(* quantities exactly: conductances are integers counted in units of       *)
(* 1e-12 S (so the regularisation 1e-12 is 1, 1/R is 10^12/R and the       *)
(* ground / wire conductance 1e6 is 10^18), voltages are integers (volts), *)
(* and the solution of A x = z is a vector of exact rationals.  The first  *)
(* n rows of A are therefore held multiplied by 10^12 and the branch       *)
(* currents J in units of 1e-12 A: with S = diag(10^12 I_n, I_m) and        *)
(* T = diag(I_n, 10^-12 I_m) the model's matrix is S A T, z is S z, and    *)
(* x = T x'.  Node voltages are unchanged by this scaling.  Rounding of    *)
(* float64 is not modelled.  TLC's integers are 32 bits wide, so the       *)
(* integers are kept as sign and base-10^4 limbs.                          *)
(***************************************************************************)
EXTENDS Integers, Sequences, FiniteSets

(***************************************************************************)
(* Exact integers of any size: [sgn, mag], mag little-endian base 10^4,    *)
(* no leading zero limb, zero is [sgn |-> 0, mag |-> <<>>].                *)
(***************************************************************************)
LimbBase == 10^4

RECURSIVE Propagate(_, _, _, _)
Propagate(raw, i, carry, acc) ==
    IF i > Len(raw)
    THEN [limbs |-> acc, carry |-> carry]
    ELSE LET t == raw[i] + carry
         IN Propagate(raw, i + 1, t \div LimbBase, Append(acc, t % LimbBase))

RECURSIVE CarryLimbs(_)
CarryLimbs(c) ==
    IF c = 0 THEN <<>> ELSE <<c % LimbBase>> \o CarryLimbs(c \div LimbBase)

RECURSIVE StripZeros(_)
StripZeros(s) ==
    IF s = <<>> THEN s
    ELSE IF s[Len(s)] = 0 THEN StripZeros(SubSeq(s, 1, Len(s) - 1)) ELSE s

BigZero == [sgn |-> 0, mag |-> <<>>]

MagToBig(sign, mag) ==
    IF mag = <<>> THEN BigZero ELSE [sgn |-> sign, mag |-> mag]

\* The integer whose limbs, possibly negative or above the base, are raw.
BigFromRaw(raw) ==
    LET p == Propagate(raw, 1, 0, <<>>)
    IN IF p.carry >= 0
       THEN MagToBig(1, StripZeros(p.limbs \o CarryLimbs(p.carry)))
       ELSE LET q == Propagate([i \in 1..Len(raw) |-> 0 - raw[i]], 1, 0, <<>>)
            IN MagToBig(-1, StripZeros(q.limbs \o CarryLimbs(q.carry)))

BigInt(k) == BigFromRaw(<<k>>)

BigOne == BigInt(1)

Limb(a, i) == IF i <= Len(a.mag) THEN a.sgn * a.mag[i] ELSE 0

BigAdd(a, b) ==
    LET n == IF Len(a.mag) > Len(b.mag) THEN Len(a.mag) ELSE Len(b.mag)
    IN BigFromRaw([i \in 1..n |-> Limb(a, i) + Limb(b, i)])

BigNeg(a) == [sgn |-> 0 - a.sgn, mag |-> a.mag]

BigSub(a, b) == BigAdd(a, BigNeg(b))

BigAbs(a) == [sgn |-> IF a.sgn = 0 THEN 0 ELSE 1, mag |-> a.mag]

RECURSIVE SumProd(_, _, _, _, _)
SumProd(x, y, k, i, hi) ==
    IF i > hi THEN 0 ELSE x[i] * y[k + 1 - i] + SumProd(x, y, k, i + 1, hi)

BigMul(a, b) ==
    IF a.sgn = 0 \/ b.sgn = 0 THEN BigZero
    ELSE LET la == Len(a.mag)
             lb == Len(b.mag)
             raw == [k \in 1..(la + lb - 1) |->
                       SumProd(a.mag, b.mag, k,
                               IF k + 1 - lb > 1 THEN k + 1 - lb ELSE 1,
                               IF k < la THEN k ELSE la)]
             p == Propagate(raw, 1, 0, <<>>)
         IN MagToBig(a.sgn * b.sgn, StripZeros(p.limbs \o CarryLimbs(p.carry)))

BigLess(a, b) == BigSub(a, b).sgn < 0

RECURSIVE DivSmall(_, _, _, _)
DivSmall(mag, d, i, rem) ==
    IF i = 0 THEN <<>>
    ELSE LET t == rem * LimbBase + mag[i]
         IN Append(DivSmall(mag, d, i - 1, t % d), t \div d)

\* a / d for a small positive integer d (the quotient, rounded toward zero).
BigDivSmall(a, d) ==
    MagToBig(a.sgn, StripZeros(DivSmall(a.mag, d, Len(a.mag), 0)))

(***************************************************************************)
(* Exact rationals [num, den] with den > 0; zero is 0/1.  Not reduced:     *)
(* compare with RatEq / RatLess, not with =.                               *)
(***************************************************************************)
Rat(num, den) ==
    IF num.sgn = 0 THEN [num |-> BigZero, den |-> BigOne]
    ELSE IF den.sgn < 0 THEN [num |-> BigNeg(num), den |-> BigNeg(den)]
    ELSE [num |-> num, den |-> den]

RatZero == [num |-> BigZero, den |-> BigOne]

RatInt(k) == Rat(BigInt(k), BigOne)

RatFrac(p, q) == Rat(BigInt(p), BigInt(q))

RatSub(x, y) ==
    Rat(BigSub(BigMul(x.num, y.den), BigMul(y.num, x.den)), BigMul(x.den, y.den))

RatAbs(x) == [num |-> BigAbs(x.num), den |-> x.den]

RatEq(x, y) == BigSub(BigMul(x.num, y.den), BigMul(y.num, x.den)).sgn = 0

RatLess(x, y) == BigLess(BigMul(x.num, y.den), BigMul(y.num, x.den))

\* x / k for an integer k # 0.
RatDivInt(x, k) == Rat(x.num, BigMul(x.den, BigInt(k)))

\* |x - y| < tol
Within(x, y, tol) == RatLess(RatAbs(RatSub(x, y)), tol)

(***************************************************************************)
(* Components (src/components).  A component is a record: kind is the      *)
(* class name, nodes the node list set by the constructor, and resistance  *)
(* / voltage the kind's parameter (0 where the class has no such field).   *)
(***************************************************************************)
None == [type |-> "None"]

PowerSupply(name, n1, n2, voltage) ==
    [kind |-> "PowerSupply", name |-> name, nodes |-> <<n1, n2>>,
     resistance |-> 0, voltage |-> voltage]

Resistor(name, n1, n2, resistance) ==
    [kind |-> "Resistor", name |-> name, nodes |-> <<n1, n2>>,
     resistance |-> resistance, voltage |-> 0]

Wire(name, n1, n2) ==
    [kind |-> "Wire", name |-> name, nodes |-> <<n1, n2>>,
     resistance |-> 0, voltage |-> 0]

Ground(name, n1) ==
    [kind |-> "Ground", name |-> name, nodes |-> <<n1>>,
     resistance |-> 0, voltage |-> 0]

\* hasattr(component, 'resistance'): only Resistor sets the attribute.
HasResistance(c) == c.kind = "Resistor"

NodesOf(c) == {c.nodes[i] : i \in 1..Len(c.nodes)}

Indices(s) == 1..Len(s)

SetMin(S) == CHOOSE x \in S : \A y \in S : x <= y

\* The elements of a set of small integers in the order Python iterates
\* them (ascending, their hash order).
RECURSIVE SortedSeq(_)
SortedSeq(S) ==
    IF S = {} THEN <<>> ELSE <<SetMin(S)>> \o SortedSeq(S \ {SetMin(S)})

(***************************************************************************)
(* CircuitValidator (src/circuit_validator.py)                             *)
(***************************************************************************)
\* A faulty graph that records each edge in one direction only.
GraphEdgesMutant(comps, n) ==
    {m \in UNION {NodesOf(comps[i]) : i \in Indices(comps)} :
        \E i \in Indices(comps) :
            /\ Len(comps[i].nodes) >= 2
            /\ comps[i].nodes[1] # comps[i].nodes[2]
            /\ comps[i].nodes[1] = n /\ comps[i].nodes[2] = m}

\* The neighbours _build_connectivity_graph records for node n.
GraphEdges(comps, n) ==
    {m \in UNION {NodesOf(comps[i]) : i \in Indices(comps)} :
        \E i \in Indices(comps) :
            /\ Len(comps[i].nodes) >= 2
            /\ comps[i].nodes[1] # comps[i].nodes[2]
            /\ \/ comps[i].nodes[1] = n /\ comps[i].nodes[2] = m
               \/ comps[i].nodes[2] = n /\ comps[i].nodes[1] = m}

build_connectivity_graph(comps) ==
    LET nodes == UNION {NodesOf(comps[i]) : i \in Indices(comps)}
    IN [all_nodes |-> nodes,
        graph |-> [n \in nodes |-> GraphEdges(comps, n)]]

RECURSIVE bfs_loop(_, _, _, _)
bfs_loop(graph, queue, visited, component) ==
    IF queue = <<>>
    THEN [component |-> component, visited |-> visited]
    ELSE LET current == Head(queue)
         IN IF current \notin visited
            THEN bfs_loop(graph,
                          Tail(queue) \o
                            SortedSeq({nb \in graph[current] :
                                          nb \notin visited \cup {current}}),
                          visited \cup {current},
                          component \cup {current})
            ELSE bfs_loop(graph, Tail(queue), visited, component)

bfs_component(graph, start_node, visited) ==
    bfs_loop(graph, <<start_node>>, visited, {})

\* A faulty search that starts a traversal from visited nodes too.
RECURSIVE find_loop_mutant(_, _, _, _, _)
find_loop_mutant(graph, order, i, visited, found) ==
    IF i > Len(order) THEN found
    ELSE LET r == bfs_component(graph, order[i], visited)
         IN find_loop_mutant(graph, order, i + 1, r.visited,
                             Append(found, r.component))

RECURSIVE find_loop(_, _, _, _, _)
find_loop(graph, order, i, visited, found) ==
    IF i > Len(order) THEN found
    ELSE IF order[i] \in visited
         THEN find_loop(graph, order, i + 1, visited, found)
         ELSE LET r == bfs_component(graph, order[i], visited)
              IN find_loop(graph, order, i + 1, r.visited,
                           Append(found, r.component))

\* The networks, in the order they are discovered.
find_connected_components(graph, all_nodes) ==
    find_loop(graph, SortedSeq(all_nodes), 1, {}, <<>>)

Touches(c, nodes) == NodesOf(c) \cap nodes # {}

TouchingIndices(comps, nodes) ==
    {i \in Indices(comps) : Touches(comps[i], nodes)}

\* A faulty detail that names only the type of the first component found.
NetworkDetailMutant(comps, nodes) ==
    [nodes |-> SortedSeq(nodes),
     component_types |-> {comps[SetMin(TouchingIndices(comps, nodes))].kind},
     component_names |-> <<>>]

\* One entry of component_details in _check_floating_nodes.
NetworkDetail(comps, nodes) ==
    [nodes |-> SortedSeq(nodes),
     component_types |-> {comps[i].kind : i \in TouchingIndices(comps, nodes)},
     component_names |->
        LET idx == SortedSeq(TouchingIndices(comps, nodes))
        IN [k \in Indices(idx) |->
              IF comps[idx[k]].name = "" THEN comps[idx[k]].kind
              ELSE comps[idx[k]].name]]

\* A faulty check that accepts only the circuit without any network.
check_floating_nodes_mutant(comps, connected_components) ==
    IF Len(connected_components) <= 0 THEN None
    ELSE [type |-> "floating_nodes",
          message |-> <<"Circuit has", Len(connected_components),
                        "isolated networks">>,
          details |-> [k \in Indices(connected_components) |->
                          NetworkDetail(comps, connected_components[k])]]

\* _check_floating_nodes
check_floating_nodes(comps, connected_components) ==
    IF Len(connected_components) <= 1 THEN None
    ELSE [type |-> "floating_nodes",
          message |-> <<"Circuit has", Len(connected_components),
                        "isolated networks">>,
          details |-> [k \in Indices(connected_components) |->
                          NetworkDetail(comps, connected_components[k])]]

IsKind(comps, kind) == {i \in Indices(comps) : comps[i].kind = kind}

\* A faulty check that ignores whether there is a power supply.
check_ground_connections_mutant(comps) ==
    IF IsKind(comps, "Ground") = {}
    THEN [type |-> "missing_ground"]
    ELSE None

\* _check_ground_connections
check_ground_connections(comps) ==
    IF IsKind(comps, "Ground") = {} /\ IsKind(comps, "PowerSupply") # {}
    THEN [type |-> "missing_ground"]
    ELSE None

check_load_components(comps) ==
    IF IsKind(comps, "PowerSupply") # {} /\ IsKind(comps, "Resistor") = {}
    THEN [type |-> "missing_load"]
    ELSE None

\* A faulty classification: any power supply makes every network a power
\* network.
has_power_mutant(comps, nodes) == IsKind(comps, "PowerSupply") # {}

has_power(comps, nodes) ==
    \E i \in IsKind(comps, "PowerSupply") : Touches(comps[i], nodes)

has_ground(comps, nodes) ==
    \E i \in IsKind(comps, "Ground") : Touches(comps[i], nodes)

\* A faulty classification that takes a network with a source and a ground
\* for a ground network as well.
suggest_connection_fixes_mutant(comps, connected_components) ==
    IF Len(connected_components) <= 1 THEN <<>>
    ELSE LET power_networks ==
                 SelectSeq(connected_components,
                           LAMBDA nodes : has_power(comps, nodes))
             ground_networks ==
                 SelectSeq(connected_components,
                           LAMBDA nodes : has_ground(comps, nodes))
             other_networks ==
                 SelectSeq(connected_components,
                           LAMBDA nodes : /\ ~has_power(comps, nodes)
                                          /\ ~has_ground(comps, nodes))
         IN IF power_networks # <<>> /\
               (ground_networks # <<>> \/ other_networks # <<>>)
            THEN (IF ground_networks # <<>>
                  THEN <<[type |-> "connect_power_to_ground",
                          from_nodes |-> SortedSeq(power_networks[1]),
                          to_nodes |-> SortedSeq(ground_networks[1]),
                          suggested_component |-> "Resistor"]>>
                  ELSE <<>>)
                 \o
                 (IF other_networks # <<>>
                  THEN <<[type |-> "connect_power_to_components",
                          from_nodes |-> SortedSeq(power_networks[1]),
                          to_nodes |-> SortedSeq(other_networks[1]),
                          suggested_component |-> "Wire"]>>
                  ELSE <<>>)
            ELSE <<>>

suggest_connection_fixes(comps, connected_components) ==
    IF Len(connected_components) <= 1 THEN <<>>
    ELSE LET power_networks ==
                 SelectSeq(connected_components,
                           LAMBDA nodes : has_power(comps, nodes))
             ground_networks ==
                 SelectSeq(connected_components,
                           LAMBDA nodes : /\ ~has_power(comps, nodes)
                                          /\ has_ground(comps, nodes))
             other_networks ==
                 SelectSeq(connected_components,
                           LAMBDA nodes : /\ ~has_power(comps, nodes)
                                          /\ ~has_ground(comps, nodes))
         IN IF power_networks # <<>> /\
               (ground_networks # <<>> \/ other_networks # <<>>)
            THEN (IF ground_networks # <<>>
                  THEN <<[type |-> "connect_power_to_ground",
                          from_nodes |-> SortedSeq(power_networks[1]),
                          to_nodes |-> SortedSeq(ground_networks[1]),
                          suggested_component |-> "Resistor"]>>
                  ELSE <<>>)
                 \o
                 (IF other_networks # <<>>
                  THEN <<[type |-> "connect_power_to_components",
                          from_nodes |-> SortedSeq(power_networks[1]),
                          to_nodes |-> SortedSeq(other_networks[1]),
                          suggested_component |-> "Wire"]>>
                  ELSE <<>>)
            ELSE <<>>

Truthy(x) == x.type # "None"

\* validate_circuit: the validator's fields after the call and the report.
validate_circuit(comps) ==
    LET g == build_connectivity_graph(comps)
        ccs == find_connected_components(g.graph, g.all_nodes)
        floating_issue == check_floating_nodes(comps, ccs)
        ground_issue == check_ground_connections(comps)
        load_issue == check_load_components(comps)
    IN [components |-> comps,
        connectivity_graph |-> g.graph,
        all_nodes |-> g.all_nodes,
        report |->
          [type |-> "report",
           is_valid |-> ~Truthy(floating_issue),
           issues |-> IF Truthy(floating_issue)
                      THEN <<floating_issue>> ELSE <<>>,
           warnings |-> (IF Truthy(ground_issue)
                         THEN <<ground_issue>> ELSE <<>>)
                        \o (IF Truthy(load_issue)
                            THEN <<load_issue>> ELSE <<>>),
           suggestions |-> IF Truthy(floating_issue)
                           THEN suggest_connection_fixes(comps, ccs)
                           ELSE <<>>,
           connected_components |-> ccs]]

(***************************************************************************)
(* CircuitSolver (src/core/solver.py): connectivity check                  *)
(***************************************************************************)
\* A faulty graph of the solver with each edge in one direction only.
analyze_graph_mutant(comps, n) ==
    {m \in UNION {NodesOf(comps[i]) : i \in Indices(comps)} :
        \E i \in Indices(comps) :
            /\ Len(comps[i].nodes) >= 2
            /\ comps[i].nodes[1] # comps[i].nodes[2]
            /\ comps[i].nodes[1] = n /\ comps[i].nodes[2] = m}

analyze_graph(comps, n) ==
    {m \in UNION {NodesOf(comps[i]) : i \in Indices(comps)} :
        \E i \in Indices(comps) :
            /\ Len(comps[i].nodes) >= 2
            /\ comps[i].nodes[1] # comps[i].nodes[2]
            /\ \/ comps[i].nodes[1] = n /\ comps[i].nodes[2] = m
               \/ comps[i].nodes[2] = n /\ comps[i].nodes[1] = m}

RECURSIVE analyze_bfs(_, _, _, _)
analyze_bfs(comps, queue, visited, component) ==
    IF queue = <<>>
    THEN [component |-> component, visited |-> visited]
    ELSE LET current == Head(queue)
         IN IF current \notin visited
            THEN analyze_bfs(comps,
                             Tail(queue) \o
                               SortedSeq({nb \in analyze_graph(comps, current) :
                                             nb \notin visited \cup {current}}),
                             visited \cup {current},
                             component \cup {current})
            ELSE analyze_bfs(comps, Tail(queue), visited, component)

RECURSIVE analyze_loop(_, _, _, _, _)
analyze_loop(comps, order, i, visited, found) ==
    IF i > Len(order) THEN found
    ELSE IF order[i] \in visited
         THEN analyze_loop(comps, order, i + 1, visited, found)
         ELSE LET r == analyze_bfs(comps, <<order[i]>>, visited, {})
              IN analyze_loop(comps, order, i + 1, r.visited,
                              Append(found, r.component))

analyze_connectivity(comps) ==
    analyze_loop(comps,
                 SortedSeq(UNION {NodesOf(comps[i]) : i \in Indices(comps)}),
                 1, {}, <<>>)

\* A faulty test that lets two networks pass.
connectivity_ok_mutant(connected_components) == Len(connected_components) <= 2

\* len(connected_components) <= 1: the circuit passes.
connectivity_ok(connected_components) == Len(connected_components) <= 1

NoError == [type |-> "none"]

\* _validate_circuit_connectivity: no error, or the ValueError it raises.
validate_circuit_connectivity(comps) ==
    LET connected_components == analyze_connectivity(comps)
    IN IF connectivity_ok(connected_components) THEN NoError
       ELSE [type |-> "FloatingNetwork",
             networks |->
               [k \in Indices(connected_components) |->
                  [nodes |-> SortedSeq(connected_components[k]),
                   contains |->
                     {comps[i].kind :
                        i \in TouchingIndices(comps, connected_components[k])}]]]

(***************************************************************************)
(* CircuitSolver: the MNA system.  Matrix indices are those of the code    *)
(* (from 0); row and column idx of the code are at idx + 1 here.           *)
(***************************************************************************)
\* 1 S in the model's unit of 1e-12 S.
OneSiemens == [sgn |-> 1, mag |-> <<0, 0, 0, 1>>]

\* 1e-12: the regularisation added to every diagonal entry of G.
Regularisation == BigOne

\* 1e6: the conductance of a ground connection, a wire, a 0-ohm resistor.
LargeConductance == BigMul(OneSiemens, BigInt(10^6))

Max(a, b) == IF a > b THEN a ELSE b

EmptyMap == [n \in {} |-> 0]

\* A faulty count that takes node 0 for a node of the matrix.
count_nodes_and_sources_mutant(comps) ==
    LET used_nodes == {n \in UNION {NodesOf(comps[i]) : i \in Indices(comps)} :
                          n >= 0}
        sources == SelectSeq(comps, LAMBDA c : c.kind = "PowerSupply")
    IN [node_map |-> [n \in used_nodes |->
                         Cardinality({k \in used_nodes : k < n})],
        voltage_sources |-> sources,
        node_count |-> IF Cardinality(used_nodes) = 0 THEN 1
                       ELSE Cardinality(used_nodes),
        num_voltage_sources |-> Len(sources)]

count_nodes_and_sources(comps) ==
    LET used_nodes == {n \in UNION {NodesOf(comps[i]) : i \in Indices(comps)} :
                          n > 0}
        sources == SelectSeq(comps, LAMBDA c : c.kind = "PowerSupply")
    IN [node_map |-> [n \in used_nodes |->
                         Cardinality({k \in used_nodes : k < n})],
        voltage_sources |-> sources,
        node_count |-> IF Cardinality(used_nodes) = 0 THEN 1
                       ELSE Cardinality(used_nodes),
        num_voltage_sources |-> Len(sources)]

ZeroMatrix(k) == [r \in 1..k |-> [c \in 1..k |-> BigZero]]

ZeroVector(k) == [r \in 1..k |-> BigZero]

\* M[i, j] += v and M[i, j] = v, for indices from 0.
MatAdd(M, i, j, v) == [M EXCEPT ![i + 1][j + 1] = BigAdd(@, v)]

MatSet(M, i, j, v) == [M EXCEPT ![i + 1][j + 1] = v]

RECURSIVE AddDiagonal(_, _, _)
AddDiagonal(M, idxs, v) ==
    IF idxs = {} THEN M
    ELSE LET i == SetMin(idxs)
         IN AddDiagonal(MatAdd(M, i, i, v), idxs \ {i}, v)

\* The matrix indices _handle_ground_connections grounds.
grounded_nodes(node_map, node_count, comps) ==
    LET explicit ==
            {node_map[comps[i].nodes[1]] :
                i \in {j \in IsKind(comps, "Ground") :
                          /\ comps[j].nodes[1] > 0
                          /\ comps[j].nodes[1] \in DOMAIN node_map}}
    IN IF explicit = {} /\ node_count > 0 THEN {0} ELSE explicit

\* A faulty grounding that adds the conductance once per Ground instance.
RECURSIVE ground_each_instance(_, _, _, _, _)
ground_each_instance(M, n, node_map, comps, i) ==
    IF i > Len(comps) THEN M
    ELSE LET c == comps[i]
             hit == /\ c.kind = "Ground"
                    /\ c.nodes[1] > 0
                    /\ c.nodes[1] \in DOMAIN node_map
                    /\ node_map[c.nodes[1]] < n
         IN ground_each_instance(
                IF hit
                THEN MatAdd(M, node_map[c.nodes[1]], node_map[c.nodes[1]],
                            LargeConductance)
                ELSE M,
                n, node_map, comps, i + 1)

handle_ground_connections_mutant(M, n, node_map, node_count, comps) ==
    IF grounded_nodes(node_map, node_count, comps) = {0}
    THEN AddDiagonal(M, {idx \in {0} : idx < n}, LargeConductance)
    ELSE ground_each_instance(M, n, node_map, comps, 1)

\* _handle_ground_connections: G with the ground conductances added.
handle_ground_connections(M, n, node_map, node_count, comps) ==
    AddDiagonal(M, {idx \in grounded_nodes(node_map, node_count, comps) : idx < n},
                LargeConductance)

\* self.node_map.get(node, -1) if node > 0 else -1
MatrixIndex(node_map, node) ==
    IF node > 0 /\ node \in DOMAIN node_map THEN node_map[node] ELSE -1

\* A faulty stamp with the two terminals' signs exchanged.
source_sign_mutant(terminal) == IF terminal = 1 THEN BigInt(-1) ELSE BigOne

\* The +1 / -1 a voltage source writes into C and B for its two terminals.
source_sign(terminal) == IF terminal = 1 THEN BigOne ELSE BigInt(-1)

\* C[idx, vs_idx] is M[idx, n + vs_idx]; B[vs_idx, idx] is M[n + vs_idx, idx];
\* E[vs_idx] is z[n + vs_idx].
stamp_voltage_source(sys, n, node_map, vs, vs_idx) ==
    LET idx1 == MatrixIndex(node_map, vs.nodes[1])
        idx2 == MatrixIndex(node_map, vs.nodes[2])
        c1 == IF idx1 >= 0
              THEN MatSet(sys.A, idx1, n + vs_idx, source_sign(1)) ELSE sys.A
        c2 == IF idx2 >= 0
              THEN MatSet(c1, idx2, n + vs_idx, source_sign(2)) ELSE c1
        b1 == IF idx1 >= 0
              THEN MatSet(c2, n + vs_idx, idx1, source_sign(1)) ELSE c2
        b2 == IF idx2 >= 0
              THEN MatSet(b1, n + vs_idx, idx2, source_sign(2)) ELSE b1
    IN [A |-> b2, z |-> [sys.z EXCEPT ![n + vs_idx + 1] = BigInt(vs.voltage)]]

\* g of _stamp_passive_component.
conductance(component) ==
    IF HasResistance(component) /\ component.resistance > 0
    THEN BigDivSmall(OneSiemens, component.resistance)
    ELSE LargeConductance

\* A faulty stamp that forgets the second off-diagonal entry.
stamp_passive_component_mutant(sys, node_map, component) ==
    IF Len(component.nodes) < 2 THEN sys
    ELSE LET idx1 == MatrixIndex(node_map, component.nodes[1])
             idx2 == MatrixIndex(node_map, component.nodes[2])
             g == conductance(component)
             d1 == IF idx1 >= 0 THEN MatAdd(sys.A, idx1, idx1, g) ELSE sys.A
             d2 == IF idx2 >= 0 THEN MatAdd(d1, idx2, idx2, g) ELSE d1
             o == IF idx1 >= 0 /\ idx2 >= 0
                  THEN MatAdd(d2, idx1, idx2, BigNeg(g))
                  ELSE d2
         IN [A |-> o, z |-> sys.z]

stamp_passive_component(sys, node_map, component) ==
    IF Len(component.nodes) < 2 THEN sys
    ELSE LET idx1 == MatrixIndex(node_map, component.nodes[1])
             idx2 == MatrixIndex(node_map, component.nodes[2])
             g == conductance(component)
             d1 == IF idx1 >= 0 THEN MatAdd(sys.A, idx1, idx1, g) ELSE sys.A
             d2 == IF idx2 >= 0 THEN MatAdd(d1, idx2, idx2, g) ELSE d1
             o == IF idx1 >= 0 /\ idx2 >= 0
                  THEN MatAdd(MatAdd(d2, idx1, idx2, BigNeg(g)),
                              idx2, idx1, BigNeg(g))
                  ELSE d2
         IN [A |-> o, z |-> sys.z]

\* The second pass of prepare_system over components[i..].
RECURSIVE stamp_components(_, _, _, _, _, _)
stamp_components(sys, n, node_map, comps, i, voltage_source_index) ==
    IF i > Len(comps) THEN sys
    ELSE IF comps[i].kind = "Ground"
         THEN stamp_components(sys, n, node_map, comps, i + 1,
                               voltage_source_index)
         ELSE IF comps[i].kind = "PowerSupply"
              THEN stamp_components(
                       stamp_voltage_source(sys, n, node_map, comps[i],
                                            voltage_source_index),
                       n, node_map, comps, i + 1, voltage_source_index + 1)
              ELSE stamp_components(
                       stamp_passive_component(sys, node_map, comps[i]),
                       n, node_map, comps, i + 1, voltage_source_index)

\* prepare_system on a solver whose fields are self: the returned (A, z) and
\* the fields afterwards.  The empty list returns before any field is set.
\* A faulty builder that overwrites every component's nodes with their
\* matrix indices while stamping and does not restore them.
prepare_system_mutant(self, comps) ==
    IF comps = <<>>
    THEN [A |-> <<<<OneSiemens>>>>, z |-> <<BigZero>>, self |-> self]
    ELSE LET c == count_nodes_and_sources(comps)
             n == Max(c.node_count, 1)
             m == c.num_voltage_sources
             G0 == AddDiagonal(ZeroMatrix(n + m), 0..(n - 1), Regularisation)
             G1 == handle_ground_connections(G0, n, c.node_map, c.node_count,
                                             comps)
             sys == stamp_components([A |-> G1, z |-> ZeroVector(n + m)],
                                     n, c.node_map, comps, 1, 0)
             aliased ==
                 [i \in Indices(comps) |->
                    [comps[i] EXCEPT
                       !.nodes = [k \in Indices(comps[i].nodes) |->
                                    MatrixIndex(c.node_map, comps[i].nodes[k])]]]
         IN [A |-> sys.A, z |-> sys.z,
             self |-> [self EXCEPT !.components = aliased,
                                   !.node_map = c.node_map,
                                   !.voltage_sources = c.voltage_sources,
                                   !.node_count = c.node_count,
                                   !.num_voltage_sources = c.num_voltage_sources]]

\* prepare_system: the system A, z and the solver's fields after the call.
prepare_system(self, comps) ==
    IF comps = <<>>
    THEN [A |-> <<<<OneSiemens>>>>, z |-> <<BigZero>>, self |-> self]
    ELSE LET c == count_nodes_and_sources(comps)
             n == Max(c.node_count, 1)
             m == c.num_voltage_sources
             G0 == AddDiagonal(ZeroMatrix(n + m), 0..(n - 1), Regularisation)
             G1 == handle_ground_connections(G0, n, c.node_map, c.node_count,
                                             comps)
             sys == stamp_components([A |-> G1, z |-> ZeroVector(n + m)],
                                     n, c.node_map, comps, 1, 0)
         IN [A |-> sys.A, z |-> sys.z,
             self |-> [self EXCEPT !.components = comps,
                                   !.node_map = c.node_map,
                                   !.voltage_sources = c.voltage_sources,
                                   !.node_count = c.node_count,
                                   !.num_voltage_sources = c.num_voltage_sources]]

(***************************************************************************)
(* np.linalg.solve: the exact solution of M x = z by Cramer's rule, or     *)
(* LinAlgError when M is singular.                                         *)
(***************************************************************************)
RemoveAt(s, j) == [i \in 1..(Len(s) - 1) |-> IF i < j THEN s[i] ELSE s[i + 1]]

Minor(M, j) == [r \in 1..(Len(M) - 1) |-> RemoveAt(M[r + 1], j)]

RECURSIVE Det(_)
RECURSIVE DetRow(_, _)
DetRow(M, j) ==
    IF j > Len(M) THEN BigZero
    ELSE LET rest == DetRow(M, j + 1)
         IN IF M[1][j].sgn = 0 THEN rest
            ELSE LET t == BigMul(M[1][j], Det(Minor(M, j)))
                 IN BigAdd(IF j % 2 = 1 THEN t ELSE BigNeg(t), rest)

Det(M) == IF Len(M) = 1 THEN M[1][1] ELSE DetRow(M, 1)

ReplaceCol(M, c, z) ==
    [r \in Indices(M) |-> [k \in Indices(M) |-> IF k = c THEN z[r] ELSE M[r][k]]]

linalg_solve(M, z) ==
    LET d == Det(M)
    IN IF d.sgn = 0 THEN [ok |-> FALSE, x |-> <<>>]
       ELSE [ok |-> TRUE,
             x |-> [i \in Indices(M) |-> Rat(Det(ReplaceCol(M, i, z)), d)]]

(***************************************************************************)
(* CircuitSolver: what solve does with the solution, and the currents      *)
(***************************************************************************)
NoMap == [type |-> "None"]

\* Lines 121-136 of solve, on the solution x: the returned map, or the
\* IndexError of node_voltages[idx] when the node map holds an index that
\* x[:node_count] does not have.
solve_result(self, x) ==
    LET have == IF self.node_count < Len(x) THEN self.node_count ELSE Len(x)
    IN IF \E node \in DOMAIN self.node_map : self.node_map[node] >= have
       THEN [error |-> [type |-> "IndexError"], voltages |-> NoMap,
             voltage_source_currents |-> self.voltage_source_currents]
       ELSE [error |-> NoError,
             voltages |->
               [type |-> "map",
                map |-> [node \in DOMAIN self.node_map \cup {0} |->
                           IF node = 0 THEN RatZero
                           ELSE x[self.node_map[node] + 1]]],
             voltage_source_currents |->
               IF self.num_voltage_sources > 0
               THEN SubSeq(x, self.node_count + 1, Len(x))
               ELSE self.voltage_source_currents]

\* A faulty Ohm's law with the two terminals exchanged.
resistor_current_mutant(component, v1, v2) ==
    IF component.resistance = 0 THEN RatZero
    ELSE RatDivInt(RatSub(v2, v1), component.resistance)

\* Resistor.calculate_current
resistor_current(component, v1, v2) ==
    IF component.resistance = 0 THEN RatZero
    ELSE RatDivInt(RatSub(v1, v2), component.resistance)

\* PowerSupply.calculate_current
power_supply_current(component, v1, v2) == RatZero

\* Component.calculate_current, inherited by Wire and Ground
base_current(component, v1, v2) == RatZero

component_current(component, v1, v2) ==
    IF component.kind = "Resistor" THEN resistor_current(component, v1, v2)
    ELSE IF component.kind = "PowerSupply"
         THEN power_supply_current(component, v1, v2)
         ELSE base_current(component, v1, v2)

\* node_voltages.get(node, 0)
VoltageAt(node_voltages, node) ==
    IF node \in DOMAIN node_voltages THEN node_voltages[node] ELSE RatZero

\* A faulty loop that keeps the first entry made for a name.
RECURSIVE calculate_currents_loop_mutant(_, _, _, _)
calculate_currents_loop_mutant(comps, node_voltages, i, result) ==
    IF i > Len(comps) THEN result
    ELSE LET c == comps[i]
             v1 == VoltageAt(node_voltages, c.nodes[1])
             v2 == IF Len(c.nodes) > 1
                   THEN VoltageAt(node_voltages, c.nodes[2]) ELSE RatZero
             current == component_current(c, v1, v2)
         IN calculate_currents_loop_mutant(
                comps, node_voltages, i + 1,
                [nm \in DOMAIN result \cup {c.name} |->
                    IF nm \in DOMAIN result THEN result[nm] ELSE current])

\* The loop of calculate_currents over components[i..]:
\* currents[component.name] = current.
RECURSIVE calculate_currents_loop(_, _, _, _)
calculate_currents_loop(comps, node_voltages, i, result) ==
    IF i > Len(comps) THEN result
    ELSE LET c == comps[i]
             v1 == VoltageAt(node_voltages, c.nodes[1])
             v2 == IF Len(c.nodes) > 1
                   THEN VoltageAt(node_voltages, c.nodes[2]) ELSE RatZero
             current == component_current(c, v1, v2)
         IN calculate_currents_loop(
                comps, node_voltages, i + 1,
                [nm \in DOMAIN result \cup {c.name} |->
                    IF nm = c.name THEN current ELSE result[nm]])

calculate_currents(comps, node_voltages) ==
    calculate_currents_loop(comps, node_voltages, 1, [nm \in {} |-> RatZero])

\* solve(components) on a solver whose fields are self: what it returns or
\* raises (lines 93-153, the steps of the Solve_ actions in one).
solve(self, comps) ==
    LET raised == validate_circuit_connectivity(comps)
    IN IF raised.type # "none"
       THEN [error |-> raised, voltages |-> NoMap]
       ELSE LET r == prepare_system([self EXCEPT !.components = comps], comps)
                s == linalg_solve(r.A, r.z)
            IN IF s.ok
               THEN LET o == solve_result(r.self, s.x)
                    IN [error |-> o.error, voltages |-> o.voltages]
               ELSE [error |-> [type |-> "SingularSystem"],
                     voltages |-> NoMap]

\* CircuitSolver.__init__
NewSolver == [components |-> <<>>, node_map |-> EmptyMap,
              voltage_sources |-> <<>>, node_count |-> 0,
              num_voltage_sources |-> 0, voltage_source_currents |-> <<>>]

\* The k-th retained branch current (from 1), in amperes: the model's J is
\* in units of 1e-12 A.
branch_current(currents_J, k) ==
    Rat(currents_J[k].num, BigMul(currents_J[k].den, OneSiemens))

(***************************************************************************)
(* The circuits the callers submit                                         *)
(***************************************************************************)
\* Node ids run over 0..MaxNode.
MaxNode == 3

\* The longest sequence of solve calls made on one solver.
MaxCalls == 2

NodeIds == 0..MaxNode

PositiveIds == 1..MaxNode

\* Ohms; each divides 10^12, so that 1/R is exact in the model's unit.
Resistances == {500, 1000, 2000}

\* Volts.
SourceVoltages == {5, 10, -5}

\* test_simple_resistor_circuit, for any terminals: a source, a resistor
\* across it, pos to neg, and the ground on the negative terminal.
SimpleCircuit(pos, neg, Vs, R) ==
    <<PowerSupply("VS1", pos, neg, Vs), Resistor("R1", pos, neg, R),
      Ground("GND", neg)>>

\* test_voltage_divider, for any nodes a, b and reference g.
DividerCircuit(a, b, g, Vs, R1, R2) ==
    <<PowerSupply("VS1", a, g, Vs), Resistor("R1", a, b, R1),
      Resistor("R2", b, g, R2), Ground("GND", g)>>

\* test_wire_connection, for any nodes a, b and reference g.
WireCircuit(a, b, g, Vs, R) ==
    <<PowerSupply("VS1", a, g, Vs), Wire("W1", a, b),
      Resistor("R1", b, g, R), Ground("GND", g)>>

\* test_floating_nodes
FloatingCircuit ==
    <<PowerSupply("VS1", 1, 0, 15), Wire("W1", 3, 4), Wire("W2", 5, 6),
      Wire("W3", 4, 5), Ground("GND", 7)>>

\* A source, one resistor across its two terminals in either orientation,
\* and one ground on any node.
AcrossCircuit(pos, neg, g, Vs, R, reversed) ==
    <<PowerSupply("VS1", pos, neg, Vs),
      IF reversed THEN Resistor("R1", neg, pos, R)
                  ELSE Resistor("R1", pos, neg, R),
      Ground("GND", g)>>

SimpleCircuits ==
    {AcrossCircuit(t[1], t[2], g, Vs, R, reversed) :
        t \in {u \in NodeIds \X NodeIds : u[1] # u[2]}, g \in NodeIds,
        Vs \in SourceVoltages, R \in Resistances, reversed \in BOOLEAN}

Triples == {t \in PositiveIds \X PositiveIds \X NodeIds :
               t[1] # t[2] /\ t[3] # t[1] /\ t[3] # t[2]}

DividerCircuits ==
    {DividerCircuit(t[1], t[2], t[3], Vs, R1, R2) :
        t \in Triples, Vs \in SourceVoltages, R1 \in Resistances,
        R2 \in Resistances}

WireCircuits ==
    {WireCircuit(t[1], t[2], t[3], Vs, R) :
        t \in Triples, Vs \in SourceVoltages, R \in Resistances}

\* The lists one solver is called with in sequence.
RecallCircuits ==
    {<<>>,
     SimpleCircuit(1, 0, 5, 1000),
     SimpleCircuit(2, 3, 5, 1000),
     DividerCircuit(1, 2, 0, 10, 1000, 2000),
     WireCircuit(1, 2, 0, 5, 500),
     FloatingCircuit,
     <<Wire("W1", 1, 2), Ground("GND", 3)>>,
     <<Ground("GND", 0)>>,
     <<Resistor("R1", 2, 0, 1000)>>,
     <<PowerSupply("VS1", 1, 0, 5), PowerSupply("VS2", 1, 0, 5)>>,
     <<PowerSupply("VS1", 1, 0, 5), Resistor("R1", 1, 0, -1000),
       Ground("GND", 0)>>,
     <<Ground("GND", 2)>>}

RECURSIVE SeqsUpTo(_, _)
SeqsUpTo(S, k) ==
    IF k = 0 THEN {<<>>}
    ELSE LET shorter == SeqsUpTo(S, k - 1)
         IN shorter \cup {Append(q, x) : q \in shorter, x \in S}

RecallScripts == SeqsUpTo(RecallCircuits, MaxCalls) \ {<<>>}

\* The components the validator's callers build lists from.
ComponentUniverse ==
    {PowerSupply("VS1", a, b, 5) : a \in NodeIds, b \in NodeIds}
    \cup {Resistor("R1", a, b, 1000) : a \in NodeIds, b \in NodeIds}
    \cup {Resistor("R0", a, b, 0) : a \in NodeIds, b \in NodeIds}
    \cup {Wire("W1", a, b) : a \in NodeIds, b \in NodeIds}
    \cup {Ground("GND", a) : a \in NodeIds}

PassiveUniverse ==
    {Wire("W1", a, b) : a \in NodeIds, b \in NodeIds}
    \cup {Ground("GND", a) : a \in NodeIds}

SourceUniverse ==
    {PowerSupply("VS1", a, b, 5) : a \in NodeIds, b \in NodeIds}

\* Every list of at most two components, every list of three wires and
\* grounds, every list of a source followed by two wires or grounds, and
\* the floating circuit of the tests.
ValidatorCircuits ==
    {<<>>, FloatingCircuit}
    \cup {<<c>> : c \in ComponentUniverse}
    \cup {<<c, d>> : c \in ComponentUniverse, d \in ComponentUniverse}
    \cup {<<c, d, e>> : c \in PassiveUniverse, d \in PassiveUniverse,
                        e \in PassiveUniverse}
    \cup {<<c, d, e>> : c \in SourceUniverse, d \in PassiveUniverse,
                        e \in PassiveUniverse}

(***************************************************************************)
(* State                                                                   *)
(***************************************************************************)
VARIABLES
    \* CircuitSolver's fields
    components, node_map, voltage_sources, node_count, num_voltage_sources,
    voltage_source_currents,
    \* the solve call in progress: where it is, its locals A and z, and the
    \* phases it has gone through
    pc, A, z, phases,
    \* what the last solve returned or raised, and the last currents
    voltages, error, currents,
    \* the lists the solver's caller has yet to submit
    todo,
    \* CircuitValidator's fields and its last report
    v_components, connectivity_graph, all_nodes, report,
    \* the editor: EventHandler's next_node and node_map, Circuit's
    \* components by grid position, each placed Wire's adjacent_components,
    \* and the placements its user has yet to make
    next_node, handler_node_map, circuit_components, adjacent_components,
    clicks

solverVars == <<components, node_map, voltage_sources, node_count,
                num_voltage_sources, voltage_source_currents, pc, A, z, phases,
                voltages, error, currents, todo>>

validatorVars == <<v_components, connectivity_graph, all_nodes, report>>

editorVars == <<next_node, handler_node_map, circuit_components,
                adjacent_components, clicks>>

vars == <<solverVars, validatorVars, editorVars>>

Self == [components |-> components, node_map |-> node_map,
         voltage_sources |-> voltage_sources, node_count |-> node_count,
         num_voltage_sources |-> num_voltage_sources,
         voltage_source_currents |-> voltage_source_currents]

SetSelf(self) ==
    /\ components' = self.components
    /\ node_map' = self.node_map
    /\ voltage_sources' = self.voltage_sources
    /\ node_count' = self.node_count
    /\ num_voltage_sources' = self.num_voltage_sources
    /\ voltage_source_currents' = self.voltage_source_currents

\* The state after construction of the solver, the validator, the circuit
\* and the event handler.
Constructed ==
    /\ components = NewSolver.components
    /\ node_map = NewSolver.node_map
    /\ voltage_sources = NewSolver.voltage_sources
    /\ node_count = NewSolver.node_count
    /\ num_voltage_sources = NewSolver.num_voltage_sources
    /\ voltage_source_currents = NewSolver.voltage_source_currents
    /\ pc = "idle"
    /\ A = <<>>
    /\ z = <<>>
    /\ phases = <<>>
    /\ voltages = NoMap
    /\ error = NoError
    /\ currents = NoMap
    \* CircuitValidator.__init__
    /\ v_components = <<>>
    /\ connectivity_graph = EmptyMap
    /\ all_nodes = {}
    /\ report = None
    \* Circuit.__init__ and EventHandler.__init__
    /\ next_node = 1
    /\ handler_node_map = EmptyMap
    /\ circuit_components = EmptyMap
    /\ adjacent_components = EmptyMap

InitOn(scripts) ==
    /\ Constructed
    /\ todo \in scripts
    /\ clicks = <<>>

(***************************************************************************)
(* CircuitSolver.solve, in the order of its statements                     *)
(***************************************************************************)
\* A faulty solve that counts the nodes and sources of the list before it
\* checks the connectivity.
Solve_Connectivity_mutant ==
    /\ pc = "idle"
    /\ todo # <<>>
    /\ LET comps == Head(todo)
           raised == validate_circuit_connectivity(comps)
           c == count_nodes_and_sources(comps)
       IN /\ components' = comps
          /\ node_map' = c.node_map
          /\ voltage_sources' = c.voltage_sources
          /\ node_count' = c.node_count
          /\ num_voltage_sources' = c.num_voltage_sources
          /\ error' = raised
          /\ pc' = IF raised.type = "none" THEN "prepare" ELSE "idle"
    /\ todo' = Tail(todo)
    /\ phases' = <<"connectivity">>
    /\ voltages' = NoMap
    /\ currents' = NoMap
    /\ A' = <<>>
    /\ z' = <<>>
    /\ UNCHANGED voltage_source_currents
    /\ UNCHANGED validatorVars
    /\ UNCHANGED editorVars

\* Lines 104-111: store the list, check the connectivity, raise or go on.
Solve_Connectivity ==
    /\ pc = "idle"
    /\ todo # <<>>
    /\ LET comps == Head(todo)
           raised == validate_circuit_connectivity(comps)
       IN /\ components' = comps
          /\ error' = raised
          /\ pc' = IF raised.type = "none" THEN "prepare" ELSE "idle"
    /\ todo' = Tail(todo)
    /\ phases' = <<"connectivity">>
    /\ voltages' = NoMap
    /\ currents' = NoMap
    /\ A' = <<>>
    /\ z' = <<>>
    /\ UNCHANGED <<node_map, voltage_sources, node_count, num_voltage_sources,
                   voltage_source_currents>>
    /\ UNCHANGED validatorVars
    /\ UNCHANGED editorVars

\* Line 114: A, z = self.prepare_system(components)
Solve_Prepare ==
    /\ pc = "prepare"
    /\ LET r == prepare_system(Self, components)
       IN /\ A' = r.A
          /\ z' = r.z
          /\ SetSelf(r.self)
    /\ pc' = "linsolve"
    /\ phases' = Append(phases, "prepare_system")
    /\ UNCHANGED <<voltages, error, currents, todo>>
    /\ UNCHANGED validatorVars
    /\ UNCHANGED editorVars

\* Lines 116-153: the numeric solve, then the result or the error.
Solve_Linear ==
    /\ pc = "linsolve"
    /\ LET s == linalg_solve(A, z)
       IN IF s.ok
          THEN LET r == solve_result(Self, s.x)
               IN /\ voltages' = r.voltages
                  /\ error' = r.error
                  /\ voltage_source_currents' = r.voltage_source_currents
          ELSE /\ voltages' = NoMap
               /\ error' = [type |-> "SingularSystem"]
               /\ UNCHANGED voltage_source_currents
    /\ pc' = "idle"
    /\ phases' = Append(phases, "linalg_solve")
    /\ A' = <<>>
    /\ z' = <<>>
    /\ UNCHANGED <<components, node_map, voltage_sources, node_count,
                   num_voltage_sources, currents, todo>>
    /\ UNCHANGED validatorVars
    /\ UNCHANGED editorVars

\* calculate_currents(voltages), with the map solve has just returned.
CalculateCurrents ==
    /\ pc = "idle"
    /\ voltages.type = "map"
    /\ currents.type = "None"
    /\ currents' = [type |-> "map",
                    map |-> calculate_currents(components, voltages.map)]
    /\ UNCHANGED <<components, node_map, voltage_sources, node_count,
                   num_voltage_sources, voltage_source_currents, pc, A, z,
                   phases, voltages, error, todo>>
    /\ UNCHANGED validatorVars
    /\ UNCHANGED editorVars

Next ==
    \/ Solve_Connectivity
    \/ Solve_Prepare
    \/ Solve_Linear
    \/ CalculateCurrents

\* One solver, called up to MaxCalls times with lists of RecallCircuits.
Spec == InitOn(RecallScripts) /\ [][Next]_vars

\* A new solver for each circuit of a family.
SpecSimple == InitOn({<<c>> : c \in SimpleCircuits}) /\ [][Next]_vars

SpecDivider == InitOn({<<c>> : c \in DividerCircuits}) /\ [][Next]_vars

SpecWire == InitOn({<<c>> : c \in WireCircuits}) /\ [][Next]_vars

(***************************************************************************)
(* CircuitValidator.validate_circuit                                       *)
(***************************************************************************)
\* validate_circuit(components), on the list its caller submits next.
ValidateCircuit ==
    /\ pc = "idle"
    /\ todo # <<>>
    /\ LET r == validate_circuit(Head(todo))
       IN /\ v_components' = r.components
          /\ connectivity_graph' = r.connectivity_graph
          /\ all_nodes' = r.all_nodes
          /\ report' = r.report
    /\ todo' = Tail(todo)
    /\ UNCHANGED <<components, node_map, voltage_sources, node_count,
                   num_voltage_sources, voltage_source_currents, pc, A, z,
                   phases, voltages, error, currents>>
    /\ UNCHANGED editorVars

NextValidator == ValidateCircuit

\* One caller that passes each of its lists either to the solver or to the
\* validator.
NextEither ==
    \/ Solve_Connectivity
    \/ Solve_Prepare
    \/ Solve_Linear
    \/ CalculateCurrents
    \/ ValidateCircuit

SpecEither == InitOn(RecallScripts) /\ [][NextEither]_vars

\* A new validator for each list of ValidatorCircuits.
SpecValidator ==
    InitOn({<<c>> : c \in ValidatorCircuits}) /\ [][NextValidator]_vars

(***************************************************************************)
(* The editor.  A placement is a click of a tool on a grid cell; the event *)
(* handler numbers grid positions as nodes on first use and the circuit    *)
(* keeps one component per cell.                                           *)
(***************************************************************************)
Tools == {"WIRE", "RESISTOR", "POWER_SUPPLY", "GROUND"}

TOOL_TO_COMPONENT(tool) ==
    CASE tool = "WIRE" -> "Wire"
      [] tool = "RESISTOR" -> "Resistor"
      [] tool = "POWER_SUPPLY" -> "PowerSupply"
      [] tool = "GROUND" -> "Ground"

\* The editor's state as one record.
Editor ==
    [next_node |-> next_node, node_map |-> handler_node_map,
     components |-> circuit_components,
     adjacent_components |-> adjacent_components]

\* dict[pos] = value
MapSet(m, pos, value) ==
    [q \in DOMAIN m \cup {pos} |-> IF q = pos THEN value ELSE m[q]]

\* del dict[pos]
MapDel(m, pos) == [q \in DOMAIN m \ {pos} |-> m[q]]

\* A faulty numbering that does not advance the counter.
get_node_number_mutant(e, pos) ==
    IF pos \in DOMAIN e.node_map
    THEN e
    ELSE [e EXCEPT !.node_map = MapSet(e.node_map, pos, e.next_node)]

\* _get_node_number: the node of a position, numbered on first use.
get_node_number(e, pos) ==
    IF pos \in DOMAIN e.node_map
    THEN e
    ELSE [e EXCEPT !.node_map = MapSet(e.node_map, pos, e.next_node),
                   !.next_node = e.next_node + 1]

\* Circuit.get_adjacent_components: (up, right, down, left).
get_adjacent_components(comps, pos) ==
    <<<<pos[1], pos[2] - 1>> \in DOMAIN comps,
      <<pos[1] + 1, pos[2]>> \in DOMAIN comps,
      <<pos[1], pos[2] + 1>> \in DOMAIN comps,
      <<pos[1] - 1, pos[2]>> \in DOMAIN comps>>

Neighbours(pos) ==
    {<<pos[1], pos[2] - 1>>, <<pos[1] + 1, pos[2]>>,
     <<pos[1], pos[2] + 1>>, <<pos[1] - 1, pos[2]>>}

\* _update_adjacent_wires: every neighbouring Wire recomputes its flags.
\* The flags of a Wire live and die with the Wire in its cell.
update_adjacent_wires(e, pos) ==
    LET wires == {q \in DOMAIN e.components : e.components[q].kind = "Wire"}
        kept == [q \in DOMAIN e.adjacent_components \cap wires |->
                    e.adjacent_components[q]]
    IN [e EXCEPT !.adjacent_components =
            [q \in DOMAIN kept |->
                IF q \in Neighbours(pos)
                THEN get_adjacent_components(e.components, q)
                ELSE kept[q]]]

\* The component a tool creates from COMPONENT_DEFAULTS and node numbers.
new_component(tool, n1, n2, n_pos, n_neg) ==
    CASE tool = "POWER_SUPPLY" -> PowerSupply("P1", n_pos, n_neg, 15)
      [] tool = "GROUND" -> Ground("GND", n1)
      [] tool = "RESISTOR" -> Resistor("R1", n1, n2, 100)
      [] tool = "WIRE" -> Wire("W1", n1, n2)

\* _handle_component_placement
handle_component_placement(e, pos, tool) ==
    IF /\ pos \in DOMAIN e.components
       /\ e.components[pos].kind = TOOL_TO_COMPONENT(tool)
    THEN update_adjacent_wires(
             [e EXCEPT !.components = MapDel(e.components, pos)], pos)
    ELSE LET right == <<pos[1] + 1, pos[2]>>
             left == <<pos[1] - 1, pos[2]>>
             e1 == get_node_number(e, pos)
             e2 == get_node_number(e1, right)
             e3 == IF tool = "POWER_SUPPLY"
                   THEN get_node_number(get_node_number(e2, right), left)
                   ELSE e2
             n_neg == IF tool = "POWER_SUPPLY" THEN e3.node_map[left] ELSE 0
             component == new_component(tool, e3.node_map[pos],
                                        e3.node_map[right],
                                        e3.node_map[right], n_neg)
             flagged == IF tool = "WIRE"
                        THEN MapSet(e3.adjacent_components, pos,
                                 get_adjacent_components(e3.components, pos))
                        ELSE e3.adjacent_components
             e4 == [e3 EXCEPT !.components = MapSet(@, pos, component),
                              !.adjacent_components = flagged]
         IN update_adjacent_wires(e4, pos)

MaxX == 3
MaxClicks == 2
Row == 2

Cells == {<<x, Row>> : x \in 1..MaxX}

\* test_complete_circuit: Ground, PowerSupply, Resistor, Wire, Ground in
\* cells (1,2)..(5,2).
LoopClicks ==
    <<<<<<1, Row>>, "GROUND">>, <<<<2, Row>>, "POWER_SUPPLY">>,
      <<<<3, Row>>, "RESISTOR">>, <<<<4, Row>>, "WIRE">>,
      <<<<5, Row>>, "GROUND">>>>

\* test_simple_complete: Ground, PowerSupply, Resistor, Ground in cells
\* (1,2)..(4,2).
SimpleLoopClicks ==
    <<<<<<1, Row>>, "GROUND">>, <<<<2, Row>>, "POWER_SUPPLY">>,
      <<<<3, Row>>, "RESISTOR">>, <<<<4, Row>>, "GROUND">>>>

ClickScripts ==
    (SeqsUpTo(Cells \X Tools, MaxClicks) \ {<<>>})
        \cup {LoopClicks, SimpleLoopClicks}

InitEditor ==
    /\ Constructed
    /\ todo = <<>>
    /\ clicks \in ClickScripts

\* One placement: the whole of _handle_component_placement.
HandleComponentPlacement ==
    /\ clicks # <<>>
    /\ LET e == handle_component_placement(Editor, Head(clicks)[1],
                                           Head(clicks)[2])
       IN /\ next_node' = e.next_node
          /\ handler_node_map' = e.node_map
          /\ circuit_components' = e.components
          /\ adjacent_components' = e.adjacent_components
    /\ clicks' = Tail(clicks)
    /\ UNCHANGED solverVars
    /\ UNCHANGED validatorVars

NextEditor == HandleComponentPlacement

SpecEditor == InitEditor /\ [][NextEditor]_vars

(***************************************************************************)
(* CircuitSolver.prepare_system called on its own, on any list: the lists  *)
(* need not be connected, and their node ids may be 0 or negative.         *)
(***************************************************************************)
AnyNodeIds == {-1} \cup NodeIds

PrepareUniverse ==
    {PowerSupply("VS1", a, b, 5) : a \in AnyNodeIds, b \in AnyNodeIds}
    \cup {PowerSupply("VS2", a, b, 10) : a \in AnyNodeIds, b \in AnyNodeIds}
    \cup {Resistor("R1", a, b, 1000) : a \in AnyNodeIds, b \in AnyNodeIds}
    \cup {Resistor("R0", a, b, 0) : a \in AnyNodeIds, b \in AnyNodeIds}
    \cup {Wire("W1", a, b) : a \in AnyNodeIds, b \in AnyNodeIds}
    \cup {Ground("GND", a) : a \in AnyNodeIds}

\* Two sources and a resistor on nodes 0..2, in every order of the three.
Interleaved ==
    LET few == 0..2
        three == {<<PowerSupply("VS1", t[1], t[2], 5),
                    PowerSupply("VS2", u[1], u[2], 10),
                    Resistor("R1", w[1], w[2], 1000)>> :
                     t \in few \X few, u \in few \X few, w \in few \X few}
        orders == {<<1, 2, 3>>, <<1, 3, 2>>, <<2, 1, 3>>, <<2, 3, 1>>,
                   <<3, 1, 2>>, <<3, 2, 1>>}
    IN {[i \in 1..3 |-> l[o[i]]] : l \in three, o \in orders}

\* Every list of at most two components, the interleaved triples, and the
\* call sequences of RecallScripts.
PrepareScripts ==
    {<<<<c>>>> : c \in PrepareUniverse}
    \cup {<<<<c, d>>>> : c \in PrepareUniverse, d \in PrepareUniverse}
    \cup {<<l>> : l \in Interleaved}
    \cup RecallScripts

\* A, z = solver.prepare_system(components), on the next list.
PrepareSystem ==
    /\ pc \in {"idle", "prepared"}
    /\ todo # <<>>
    /\ LET r == prepare_system(Self, Head(todo))
       IN /\ A' = r.A
          /\ z' = r.z
          /\ SetSelf(r.self)
    /\ todo' = Tail(todo)
    /\ pc' = "prepared"
    /\ phases' = <<"prepare_system">>
    /\ UNCHANGED <<voltages, error, currents>>
    /\ UNCHANGED validatorVars
    /\ UNCHANGED editorVars

NextPrepare == PrepareSystem

SpecPrepare == InitOn(PrepareScripts) /\ [][NextPrepare]_vars

BothUniverse ==
    {PowerSupply("VS1", a, b, 5) : a \in NodeIds, b \in NodeIds}
    \cup {Resistor("R1", a, b, 1000) : a \in NodeIds, b \in NodeIds}
    \cup {Wire("W1", a, b) : a \in NodeIds, b \in NodeIds}
    \cup {Ground("GND", a) : a \in NodeIds}

\* Every list of at most two components, every list of two wires and a
\* ground, and the floating circuit of the tests.
BothCircuits ==
    {<<>>, FloatingCircuit}
    \cup {<<c>> : c \in BothUniverse}
    \cup {<<c, d>> : c \in BothUniverse, d \in BothUniverse}
    \cup {<<Wire("W1", a[1], a[2]), Wire("W1", b[1], b[2]), Ground("GND", g)>> :
             a \in NodeIds \X NodeIds, b \in NodeIds \X NodeIds, g \in NodeIds}

\* One caller that submits each list of BothCircuits twice, to the
\* validator and to the solver in any order.
BothScripts == {<<c, c>> : c \in BothCircuits}

SpecBoth == InitOn(BothScripts) /\ [][NextEither]_vars

(***************************************************************************)
(* CircuitSolver.calculate_currents called with a voltage map of the       *)
(* caller's, after any solve call, one that raised included.               *)
(***************************************************************************)
CurrentUniverse ==
    {Resistor("R1", a, b, 1000) : a \in AnyNodeIds, b \in AnyNodeIds}
    \cup {Resistor("R1", a, b, 0) : a \in AnyNodeIds, b \in AnyNodeIds}
    \cup {Resistor("R2", a, b, 500) : a \in AnyNodeIds, b \in AnyNodeIds}
    \cup {Wire("W1", a, b) : a \in AnyNodeIds, b \in AnyNodeIds}
    \cup {PowerSupply("VS1", a, b, 5) : a \in AnyNodeIds, b \in AnyNodeIds}
    \cup {Ground("GND", a) : a \in AnyNodeIds}

\* The components that follow one of CurrentUniverse in a list of two; some
\* share its name.
SecondComponents ==
    {Resistor("R1", 1, 2, 500), Resistor("R2", 2, 0, 1000),
     Wire("W1", 1, 2), Wire("R1", 0, 1), Ground("GND", 0), Ground("R1", 2),
     PowerSupply("VS1", 1, 0, 5)}

CurrentScripts ==
    {<<<<c>>>> : c \in CurrentUniverse}
    \cup {<<<<c, d>>>> : c \in CurrentUniverse, d \in SecondComponents}
    \cup RecallScripts

\* The voltage maps a caller supplies: two assignments of volts to the
\* nodes 0..2, each on every subset of these nodes.
SuppliedMaps ==
    {[n \in D |-> RatInt(3 * n + 2)] : D \in SUBSET (0..2)}
    \cup {[n \in D |-> RatInt(7 - 5 * n)] : D \in SUBSET (0..2)}

\* currents = solver.calculate_currents(node_voltages)
CalculateCurrentsSupplied ==
    /\ pc = "idle"
    /\ currents.type = "None"
    /\ \E node_voltages \in SuppliedMaps :
          currents' = [type |-> "map",
                       map |-> calculate_currents(components, node_voltages),
                       node_voltages |-> node_voltages]
    /\ UNCHANGED <<components, node_map, voltage_sources, node_count,
                   num_voltage_sources, voltage_source_currents, pc, A, z,
                   phases, voltages, error, todo>>
    /\ UNCHANGED validatorVars
    /\ UNCHANGED editorVars

NextCurrents ==
    \/ Solve_Connectivity
    \/ Solve_Prepare
    \/ Solve_Linear
    \/ CalculateCurrents
    \/ CalculateCurrentsSupplied

SpecCurrents == InitOn(CurrentScripts) /\ [][NextCurrents]_vars

(***************************************************************************)
(* The networks of a component list as the specification defines them:     *)
(* the nodes are all node ids of all components, two nodes are joined when *)
(* a component with two distinct terminals has them as nodes[0], nodes[1], *)
(* and a network is a class of the reachability relation.                  *)
(***************************************************************************)
RefNodes(comps) == UNION {NodesOf(comps[i]) : i \in Indices(comps)}

RefJoined(comps, a, b) ==
    \E i \in Indices(comps) :
        /\ Len(comps[i].nodes) = 2
        /\ comps[i].nodes[1] # comps[i].nodes[2]
        /\ {comps[i].nodes[1], comps[i].nodes[2]} = {a, b}

RECURSIVE RefReach(_, _)
RefReach(comps, S) ==
    LET T == S \cup {b \in RefNodes(comps) : \E a \in S : RefJoined(comps, a, b)}
    IN IF T = S THEN S ELSE RefReach(comps, T)

RefNetworks(comps) == {RefReach(comps, {n}) : n \in RefNodes(comps)}

SeqRange(s) == {s[i] : i \in Indices(s)}

Validated == report.type = "report"

\* A solve call has ended: it returned or raised.
SolveEnded == pc = "idle" /\ phases # <<>>

Returned == SolveEnded /\ voltages.type = "map"

AllPhases == <<"connectivity", "prepare_system", "linalg_solve">>

Hundredth == RatFrac(1, 100)

Thousandth == RatFrac(1, 1000)

(***************************************************************************)
(* C1.  For every component list whose node graph has k >= 2 connected     *)
(* networks, validate_circuit returns is_valid = False and lists exactly   *)
(* those k distinct networks, in the returned network list and in the      *)
(* details of the floating_nodes issue; the floating circuit of the tests  *)
(* yields the three networks {0,1}, {3,4,5,6}, {7}.                        *)
(***************************************************************************)
C1_FloatingNetworksListed ==
    Validated =>
        LET nets == RefNetworks(v_components)
            k == Cardinality(nets)
        IN /\ k >= 2 =>
                /\ report.is_valid = FALSE
                /\ Len(report.connected_components) = k
                /\ SeqRange(report.connected_components) = nets
                /\ Len(report.issues) = 1
                /\ report.issues[1].type = "floating_nodes"
                /\ report.issues[1].message[2] = k
                /\ Len(report.issues[1].details) = k
                /\ {SeqRange(report.issues[1].details[i].nodes) :
                       i \in Indices(report.issues[1].details)} = nets
           /\ v_components = FloatingCircuit =>
                SeqRange(report.connected_components)
                    = {{0, 1}, {3, 4, 5, 6}, {7}}

C1_Witness ==
    /\ Validated
    /\ v_components = FloatingCircuit
    /\ report.is_valid = FALSE
    /\ Len(report.connected_components) = 3
    /\ Len(report.issues[1].details) = 3

(***************************************************************************)
(* C2.  solve checks connectivity before anything else: a call with a list *)
(* of two or more networks ends with the floating-network error after the  *)
(* connectivity phase alone, with neither prepare_system nor the numeric   *)
(* solve run; the phases always come in the order connectivity,            *)
(* prepare_system, linalg_solve; and the numeric failure is raised only    *)
(* for a list of at most one network.                                      *)
(***************************************************************************)
C2_ConnectivityBeforeNumeric ==
    /\ \E n \in 0..Len(AllPhases) : phases = SubSeq(AllPhases, 1, n)
    /\ pc \in {"prepare", "linsolve"} =>
          Cardinality(RefNetworks(components)) <= 1
    /\ (phases # <<>> /\ Cardinality(RefNetworks(components)) >= 2) =>
          /\ phases = <<"connectivity">>
          /\ pc = "idle"
          /\ error.type = "FloatingNetwork"
          /\ voltages.type = "None"
    /\ error.type = "SingularSystem" =>
          /\ phases = AllPhases
          /\ Cardinality(RefNetworks(components)) <= 1

C2_Witness ==
    /\ components = FloatingCircuit
    /\ pc = "idle"
    /\ phases = <<"connectivity">>
    /\ error.type = "FloatingNetwork"

(***************************************************************************)
(* C3.  Whatever lists one solver was called with before, every solve call *)
(* ends as the same call on a newly constructed solver ends: the same      *)
(* voltage map or the same error.                                          *)
(***************************************************************************)
C3_SameAsNewSolver ==
    SolveEnded =>
        LET fresh == solve(NewSolver, components)
        IN /\ error = fresh.error
           /\ voltages = fresh.voltages

(***************************************************************************)
(* C4.  Voltage-divider law: for the circuit [VoltageSource(a, g, Vs),     *)
(* Resistor(a, b, R1), Resistor(b, g, R2), Ground(g)] solve returns at the *)
(* mid node b a voltage within 1e-2 of Vs * R2 / (R1 + R2).                *)
(***************************************************************************)
C4_DividerLaw ==
    SolveEnded =>
        /\ voltages.type = "map"
        /\ LET b == components[2].nodes[2]
               Vs == components[1].voltage
               R1 == components[2].resistance
               R2 == components[3].resistance
           IN /\ b \in DOMAIN voltages.map
              /\ Within(voltages.map[b], RatFrac(Vs * R2, R1 + R2), Hundredth)

(***************************************************************************)
(* C5.  For the circuit of one VoltageSource(pos, neg, Vs) whose positive  *)
(* node is not the reference node 0, one Resistor R > 0 across its two     *)
(* terminals and one Ground on the source's negative node, solve returns   *)
(* Vs within 1e-2 at pos and 0 at neg (exactly 0.0 when neg is node 0,     *)
(* within 1e-2 otherwise), and calculate_currents reports for the resistor *)
(* Vs / R within 1e-3 when it runs from pos to neg and -Vs / R when it     *)
(* runs from neg to pos; [VS(1,0,5), R1(1,0,1000), Ground(0)] gives a map  *)
(* over exactly the nodes 1 and 0.                                         *)
(***************************************************************************)
C5_SourceAcrossResistor ==
    LET pos == components[1].nodes[1]
        neg == components[1].nodes[2]
        Vs == components[1].voltage
        R == components[2].resistance
    IN (SolveEnded /\ pos # 0 /\ components[3].nodes[1] = neg) =>
           /\ voltages.type = "map"
           /\ error.type = "none"
           /\ {pos, neg, 0} \subseteq DOMAIN voltages.map
           /\ Within(voltages.map[pos], RatInt(Vs), Hundredth)
           /\ Within(voltages.map[neg], RatZero, Hundredth)
           /\ voltages.map[0] = RatZero
           /\ components = SimpleCircuit(1, 0, 5, 1000) =>
                 DOMAIN voltages.map = {0, 1}
           /\ currents.type = "map" =>
                 /\ DOMAIN currents.map = {"VS1", "R1", "GND"}
                 /\ Within(currents.map["R1"],
                           IF components[2].nodes[1] = pos
                           THEN RatFrac(Vs, R) ELSE RatFrac(-Vs, R),
                           Thousandth)

C5_Witness ==
    /\ components = SimpleCircuit(1, 0, 5, 1000)
    /\ Returned
    /\ currents.type = "map"
    /\ RatEq(voltages.map[1], RatInt(5))
    /\ RatEq(currents.map["R1"], RatFrac(5, 1000))

\* C5 as stated, for every such circuit wherever its one Ground is and
\* whichever terminal is node 0: Vs at the positive node, 0 at the node
\* carrying the Ground, Vs / R for the resistor.
C5_AnyGroundedCircuit ==
    SolveEnded =>
        LET pos == components[1].nodes[1]
            g == components[3].nodes[1]
            Vs == components[1].voltage
            R == components[2].resistance
        IN /\ voltages.type = "map"
           /\ Within(VoltageAt(voltages.map, pos), RatInt(Vs), Hundredth)
           /\ Within(VoltageAt(voltages.map, g), RatZero, Hundredth)
           /\ currents.type = "map" =>
                 Within(currents.map["R1"], RatFrac(Vs, R), Thousandth)

(***************************************************************************)
(* C6.  Whenever solve returns, the two nodes joined by a Wire have solved *)
(* voltages that differ by less than 1e-3.                                 *)
(***************************************************************************)
C6_WireEqualises ==
    Returned =>
        \A i \in IsKind(components, "Wire") :
            Within(VoltageAt(voltages.map, components[i].nodes[1]),
                   VoltageAt(voltages.map, components[i].nodes[2]),
                   Thousandth)

(***************************************************************************)
(* C7.  After a successful solve, calculate_currents reports for the k-th  *)
(* VoltageSource the k-th branch current solve retained from the solution  *)
(* vector, which is not zero for a source driving a resistive load.        *)
(***************************************************************************)
C7_SourceCurrentIsBranchCurrent ==
    (Returned /\ currents.type = "map") =>
        \A k \in Indices(voltage_sources) :
            /\ k <= Len(voltage_source_currents)
            /\ RatEq(currents.map[voltage_sources[k].name],
                     branch_current(voltage_source_currents, k))

(***************************************************************************)
(* C8.  When solve returns, the map has exactly one entry for every node   *)
(* id of the node map of that call's list and the entry 0 -> 0.0.          *)
(***************************************************************************)
C8_ResultNodes ==
    Returned =>
        /\ DOMAIN voltages.map =
              DOMAIN count_nodes_and_sources(components).node_map \cup {0}
        /\ voltages.map[0] = RatZero

(***************************************************************************)
(* C9.  validate_circuit gives the missing-load warning exactly when the   *)
(* list holds a VoltageSource and no Resistor of nonzero resistance.       *)
(***************************************************************************)
C9_MissingLoadWarning ==
    Validated =>
        ((\E i \in Indices(report.warnings) :
              report.warnings[i].type = "missing_load")
         <=>
         (/\ IsKind(v_components, "PowerSupply") # {}
          /\ ~\E i \in IsKind(v_components, "Resistor") :
                 v_components[i].resistance # 0))

(***************************************************************************)
(* C10.  validate_circuit gives the missing-ground warning exactly when    *)
(* the list holds a VoltageSource and no Ground; the finding is in         *)
(* warnings, once, and never in issues.                                    *)
(***************************************************************************)
C10_MissingGroundWarning ==
    Validated =>
        /\ (\E i \in Indices(report.warnings) :
                report.warnings[i].type = "missing_ground")
           <=>
           (/\ IsKind(v_components, "PowerSupply") # {}
            /\ IsKind(v_components, "Ground") = {})
        /\ Cardinality({i \in Indices(report.warnings) :
                           report.warnings[i].type = "missing_ground"}) <= 1
        /\ \A i \in Indices(report.issues) :
               report.issues[i].type # "missing_ground"

C10_Witness ==
    /\ Validated
    /\ v_components = <<PowerSupply("VS1", 1, 0, 5), Resistor("R1", 1, 0, 1000)>>
    /\ report.is_valid
    /\ report.issues = <<>>
    /\ Len(report.warnings) = 1
    /\ report.warnings[1].type = "missing_ground"

(***************************************************************************)
(* C11.  validate_circuit returns its findings as data for every list of   *)
(* components, the empty list included: after the call there is a report,  *)
(* whose is_valid is True exactly when the circuit has zero or one         *)
(* network; the only issue ever reported is floating_nodes, and the        *)
(* missing-ground and missing-load findings are warnings that leave        *)
(* is_valid True.                                                          *)
(***************************************************************************)
C11_FindingsAsData ==
    /\ (todo = <<>>) => Validated
    /\ Validated =>
          /\ report.is_valid <=> Cardinality(RefNetworks(v_components)) <= 1
          /\ report.is_valid <=> report.issues = <<>>
          /\ \A i \in Indices(report.issues) :
                 report.issues[i].type = "floating_nodes"
          /\ \A i \in Indices(report.warnings) :
                 report.warnings[i].type \in {"missing_ground", "missing_load"}
          /\ v_components = <<>> =>
                 /\ report.is_valid
                 /\ report.warnings = <<>>
                 /\ report.suggestions = <<>>
                 /\ report.connected_components = <<>>

C11_Witness ==
    /\ Validated
    /\ v_components = <<PowerSupply("VS1", 1, 0, 5)>>
    /\ report.is_valid
    /\ Len(report.warnings) = 2
    /\ report.warnings[1].type = "missing_ground"
    /\ report.warnings[2].type = "missing_load"

\* Some component of the kind has a node in the network.
RefTouchedBy(comps, nodes, kind) ==
    \E i \in Indices(comps) :
        comps[i].kind = kind /\ NodesOf(comps[i]) \cap nodes # {}

\* The class of a network: power, else ground, else other.
RefClass(comps, nodes) ==
    IF RefTouchedBy(comps, nodes, "PowerSupply") THEN "power"
    ELSE IF RefTouchedBy(comps, nodes, "Ground") THEN "ground"
    ELSE "other"

RefOfClass(comps, ccs, class) ==
    {k \in Indices(ccs) : RefClass(comps, ccs[k]) = class}

RefFirst(comps, ccs, class) == ccs[SetMin(RefOfClass(comps, ccs, class))]

SuggestionsOf(component) ==
    {i \in Indices(report.suggestions) :
        report.suggestions[i].suggested_component = component}

(***************************************************************************)
(* C12.  When validate_circuit finds two or more networks it classes each  *)
(* as power (touches a VoltageSource), else ground (touches a Ground),     *)
(* else other.  It suggests a 'Resistor' from the first power network to   *)
(* the first ground network exactly when both classes exist, and a 'Wire'  *)
(* from the first power network to the first other network exactly when    *)
(* both exist; there is nothing else among the suggestions, and the        *)
(* Resistor suggestion precedes the Wire suggestion.  First is first in    *)
(* the order of the returned network list.                                 *)
(***************************************************************************)
C12_BridgeSuggestions ==
    (Validated /\ Len(report.connected_components) >= 2) =>
        LET ccs == report.connected_components
            some(class) == RefOfClass(v_components, ccs, class) # {}
            R == SuggestionsOf("Resistor")
            W == SuggestionsOf("Wire")
        IN /\ R \cup W = Indices(report.suggestions)
           /\ Cardinality(R) = IF some("power") /\ some("ground") THEN 1 ELSE 0
           /\ Cardinality(W) = IF some("power") /\ some("other") THEN 1 ELSE 0
           /\ \A i \in R :
                 /\ SeqRange(report.suggestions[i].from_nodes)
                       = RefFirst(v_components, ccs, "power")
                 /\ SeqRange(report.suggestions[i].to_nodes)
                       = RefFirst(v_components, ccs, "ground")
           /\ \A i \in W :
                 /\ SeqRange(report.suggestions[i].from_nodes)
                       = RefFirst(v_components, ccs, "power")
                 /\ SeqRange(report.suggestions[i].to_nodes)
                       = RefFirst(v_components, ccs, "other")
           /\ \A i \in R, j \in W : i < j

C12_Witness ==
    /\ Validated
    /\ v_components = FloatingCircuit
    /\ Len(report.suggestions) = 2
    /\ report.suggestions[1].suggested_component = "Resistor"
    /\ SeqRange(report.suggestions[1].from_nodes) = {0, 1}
    /\ SeqRange(report.suggestions[1].to_nodes) = {7}
    /\ report.suggestions[2].suggested_component = "Wire"
    /\ SeqRange(report.suggestions[2].to_nodes) = {3, 4, 5, 6}

Kinds == {"PowerSupply", "Resistor", "Wire", "Ground"}

\* The type names of the components with at least one node in the network.
RefTypes(comps, nodes) ==
    {kind \in Kinds : RefTouchedBy(comps, nodes, kind)}

IsAscending(seq) == \A i, j \in Indices(seq) : i < j => seq[i] < seq[j]

\* The n entries, with node lists nodesOf and type sets typesOf, are one
\* per network of the list.
OnePerNetwork(comps, nodesOf, typesOf, n) ==
    /\ n = Cardinality(RefNetworks(comps))
    /\ \A i \in 1..n : IsAscending(nodesOf[i])
    /\ \A net \in RefNetworks(comps) :
          \E i \in 1..n :
              /\ SeqRange(nodesOf[i]) = net
              /\ typesOf[i] = RefTypes(comps, net)

(***************************************************************************)
(* C13.  Whenever a list has two or more networks, the validator's         *)
(* floating_nodes issue and the error solve raises for the same list each  *)
(* hold one entry per network, giving the network's node ids in ascending  *)
(* order and exactly the set of type names of the components with a node   *)
(* in that network.                                                        *)
(***************************************************************************)
C13_PerNetworkDetail ==
    (Validated /\ Cardinality(RefNetworks(v_components)) >= 2) =>
        /\ Len(report.issues) = 1
        /\ report.issues[1].type = "floating_nodes"
        /\ LET d == report.issues[1].details
           IN OnePerNetwork(v_components,
                            [i \in Indices(d) |-> d[i].nodes],
                            [i \in Indices(d) |-> d[i].component_types],
                            Len(d))
        /\ LET e == solve(NewSolver, v_components).error
           IN /\ e.type = "FloatingNetwork"
              /\ OnePerNetwork(v_components,
                               [i \in Indices(e.networks) |-> e.networks[i].nodes],
                               [i \in Indices(e.networks) |-> e.networks[i].contains],
                               Len(e.networks))

C13_Witness ==
    /\ Validated
    /\ v_components = FloatingCircuit
    /\ Len(report.issues) = 1
    /\ report.issues[1].details[1] =
          [nodes |-> <<0, 1>>, component_types |-> {"PowerSupply"},
           component_names |-> <<"VS1">>]
    /\ report.issues[1].details[2].nodes = <<3, 4, 5, 6>>
    /\ report.issues[1].details[2].component_types = {"Wire"}
    /\ solve(NewSolver, v_components).error.networks[3] =
          [nodes |-> <<7>>, contains |-> {"Ground"}]

\* The number of terminals of a kind.
TerminalCount(kind) == IF kind = "Ground" THEN 1 ELSE 2

WellFormed(c) ==
    /\ Len(c.nodes) = TerminalCount(c.kind)
    /\ c.kind = "Resistor" => c.resistance >= 0

(***************************************************************************)
(* C14.  Every component of a list for which solve assembled the system    *)
(* (stamped the components) has as many nodes as its kind has terminals    *)
(* and, if it is a Resistor, a resistance >= 0: a list with a component    *)
(* that is not so never gets as far as prepare_system.                     *)
(***************************************************************************)
C14_OnlyWellFormedStamped ==
    "prepare_system" \in SeqRange(phases) =>
        \A i \in Indices(components) : WellFormed(components[i])

(***************************************************************************)
(* C15.  No step of solve (prepare_system included), of calculate_currents *)
(* or of validate_circuit changes a component it was given: the list the   *)
(* solver or the validator holds, which is the caller's list itself, is    *)
(* only ever replaced by the list of the next call, and between two calls  *)
(* every component keeps its nodes, name, resistance and voltage, whether  *)
(* the call returns or raises.                                             *)
(***************************************************************************)
C15_ComponentsUnchanged ==
    [][/\ todo' = todo =>
            /\ components' = components
            /\ v_components' = v_components
       /\ todo' # todo =>
            \/ components' = Head(todo) /\ v_components' = v_components
            \/ v_components' = Head(todo) /\ components' = components]_vars

C15_Witness ==
    /\ components = DividerCircuit(1, 2, 0, 10, 1000, 2000)
    /\ Returned
    /\ currents.type = "map"
    /\ DOMAIN node_map = {1, 2}
    /\ Validated
    /\ v_components = FloatingCircuit

\* The map that gives the ids of S the indices 0..n-1 in ascending order.
RankMap(S) == [n \in S |-> Cardinality({m \in S : m < n})]

\* The strictly positive node ids the components of the given indices have.
PositiveNodes(comps, idxs) ==
    {n \in UNION {NodesOf(comps[i]) : i \in idxs} : n > 0}

Assembled == "prepare_system" \in SeqRange(phases)

(***************************************************************************)
(* C16.  The node map in force once a solve has assembled its system is a  *)
(* function of the set of strictly positive node ids its list references   *)
(* and of nothing else: it gives exactly those ids the indices 0..n-1 in   *)
(* ascending order (so it never holds node 0), whatever the order of the   *)
(* list and whatever the solver was called with before.                    *)
(***************************************************************************)
C16_NodeMapOfPositiveIds ==
    Assembled =>
        node_map = RankMap(PositiveNodes(components, Indices(components)))

(***************************************************************************)
(* C18.  The large ground conductance is added at matrix index 0 as the    *)
(* fallback exactly when the list holds no Ground component at all; when   *)
(* it holds one or more, a Ground on node 0 included, the conductance is   *)
(* added at the indices of the nodes that carry a Ground and nowhere else. *)
(***************************************************************************)
C18_FallbackOnlyWithoutGround ==
    (pc = "linsolve" /\ components # <<>>) =>
        grounded_nodes(node_map, node_count, components) =
            IF \A i \in Indices(components) : components[i].kind # "Ground"
            THEN {0}
            ELSE {node_map[n] :
                    n \in {components[i].nodes[1] :
                             i \in {j \in Indices(components) :
                                      components[j].kind = "Ground"}}
                          \cap DOMAIN node_map}

(***************************************************************************)
(* C19.  Grounding is applied once per node: for every list whose system   *)
(* is assembled, the list with one more Ground on a node that already      *)
(* carries a Ground, put last or first, assembles to the same A and z.     *)
(***************************************************************************)
C19_GroundOncePerNode ==
    pc = "linsolve" =>
        \A i \in IsKind(components, "Ground") :
            LET extra == Ground("GND2", components[i].nodes[1])
                last == prepare_system(NewSolver, Append(components, extra))
                first == prepare_system(NewSolver, <<extra>> \o components)
            IN /\ last.A = A /\ last.z = z
               /\ first.A = A /\ first.z = z

C19_Witness ==
    /\ pc = "linsolve"
    /\ components = AcrossCircuit(1, 2, 2, 5, 1000, FALSE)
    /\ grounded_nodes(node_map, node_count, components) = {1}
    /\ A = prepare_system(NewSolver,
                          Append(components, Ground("GND2", 2))).A

(***************************************************************************)
(* C20.  The node map built for a non-empty list holds exactly the         *)
(* strictly positive node ids of its components other than Ground: a node  *)
(* id that only a Ground has gets no index and is not counted in n.        *)
(***************************************************************************)
C20_GroundOnlyNodesUnmapped ==
    (Assembled /\ components # <<>>) =>
        LET ids == PositiveNodes(components,
                                 {i \in Indices(components) :
                                     components[i].kind # "Ground"})
        IN /\ DOMAIN node_map = ids
           /\ node_count = Max(Cardinality(ids), 1)

\* C17: after any sequence of placements, the components in two
\* horizontally adjacent cells (x,y) and (x+1,y) share at least one node id,
\* whatever their kinds.
C17_AdjacentShareNode ==
    clicks = <<>> =>
        \A p \in DOMAIN circuit_components :
            LET q == <<p[1] + 1, p[2]>>
            IN q \in DOMAIN circuit_components =>
                   NodesOf(circuit_components[p])
                       \cap NodesOf(circuit_components[q]) # {}

(***************************************************************************)
(* The dimensions of the system                                            *)
(***************************************************************************)
\* n and m of a list: the distinct strictly positive node ids, at least 1,
\* and the voltage sources.
RefN(comps) ==
    Max(1, Cardinality({k \in RefNodes(comps) : k > 0}))

RefM(comps) == Cardinality(IsKind(comps, "PowerSupply"))

IsSquare(M, k) == Len(M) = k /\ \A r \in 1..Len(M) : Len(M[r]) = k

\* C21: prepare_system returns a square A of size n + m and a z of length
\* n + m, n the number of distinct strictly positive node ids of the list
\* (at least 1) and m its number of voltage sources; the empty list gives
\* A = [1], z = [0].
C21_SystemDimensions ==
    [][(pc' = "prepared" /\ todo # <<>> /\ todo' = Tail(todo)) =>
          LET comps == Head(todo)
              k == RefN(comps) + RefM(comps)
          IN /\ IsSquare(A', k)
             /\ Len(z') = k
             /\ comps = <<>> => A' = <<<<OneSiemens>>>> /\ z' = <<BigZero>>]_vars

\* A source between node 0 and a negative id: n is clamped to 1, m = 1.
C21_Witness ==
    /\ pc = "prepared"
    /\ components = <<PowerSupply("VS1", 0, -1, 5)>>
    /\ node_map = EmptyMap
    /\ IsSquare(A, 2)
    /\ Len(z) = 2

(***************************************************************************)
(* The block structure A = [G C; B D], z = [I; E]                          *)
(***************************************************************************)
\* C22: for every list, lists with a component whose two terminals are the
\* same node or are 0 or negative included, the G block of the returned
\* matrix is symmetric, B is the transpose of C, D is zero and the current
\* part I of z is zero.
C22_BlockStructure ==
    [][(pc' = "prepared" /\ todo # <<>> /\ todo' = Tail(todo)) =>
          LET comps == Head(todo)
              n == RefN(comps)
              size == Len(A')
          IN /\ \A i \in 1..n : \A j \in 1..n : A'[i][j] = A'[j][i]
             /\ \A i \in 1..n : \A k \in (n + 1)..size :
                    A'[k][i] = A'[i][k]
             /\ \A k \in (n + 1)..size : \A l \in (n + 1)..size :
                    A'[k][l] = BigZero
             /\ \A i \in 1..n : z'[i] = BigZero]_vars

\* A source with both terminals on node 1 next to a resistor from 1 to 2:
\* the source's column holds -1 at node 1, and G has off-diagonal entries.
C22_Witness ==
    /\ pc = "prepared"
    /\ components = <<PowerSupply("VS1", 1, 1, 5), Resistor("R1", 1, 2, 1000)>>
    /\ Len(A) = 3
    /\ A[1][3] = BigInt(-1)
    /\ A[3][1] = BigInt(-1)
    /\ A[1][2] = BigNeg(conductance(components[2]))
    /\ A[2][1] = A[1][2]

(***************************************************************************)
(* The rows and columns of the voltage sources                             *)
(***************************************************************************)
\* The voltage sources of a list, in list order.
RefSources(comps) == SelectSeq(comps, LAMBDA c : c.kind = "PowerSupply")

IsPartition(P, U) ==
    /\ {} \notin P
    /\ \A X \in P : \A Y \in P : X # Y => X \cap Y = {}
    /\ UNION P = U

NoRepeats(seq) == Cardinality(SeqRange(seq)) = Len(seq)

Rotations(seq) ==
    {[i \in Indices(seq) |-> seq[((i + k - 1) % Len(seq)) + 1]] :
        k \in 0..(Len(seq) - 1)}

Reversed(seq) == [i \in Indices(seq) |-> seq[Len(seq) + 1 - i]]

\* Orders in which the nodes of S can be taken: every node comes first in
\* one of them, ascending and descending.
Orders(S) ==
    IF S = {} THEN {<<>>}
    ELSE Rotations(SortedSeq(S)) \cup Rotations(Reversed(SortedSeq(S)))

\* A Ground whose node no two-terminal component touches.
LoneGrounds(comps) ==
    {i \in IsKind(comps, "Ground") :
        \A j \in Indices(comps) :
            Len(comps[j].nodes) = 2 => comps[i].nodes[1] \notin NodesOf(comps[j])}

\* What C24 says of a list of networks nets computed for comps.
PartitionOfNodes(comps, nets) ==
    /\ NoRepeats(nets)
    /\ IsPartition(SeqRange(nets), RefNodes(comps))
    /\ \A a \in RefNodes(comps) : \A b \in RefNodes(comps) :
           (\E X \in SeqRange(nets) : a \in X /\ b \in X)
               <=> b \in RefReach(comps, {a})
    /\ \A i \in LoneGrounds(comps) : {comps[i].nodes[1]} \in SeqRange(nets)

\* C24: the networks of the validator and of the solver are a partition of
\* the node ids of the list (Ground nodes and node 0 included), two nodes
\* share a network iff a path of two-terminal components joins them, a
\* Ground on an otherwise untouched node is a network of its own, and the
\* set of networks is the same in whatever order the nodes are taken.
C24_NetworksPartition ==
    /\ Validated =>
          /\ PartitionOfNodes(v_components, report.connected_components)
          /\ \A order \in Orders(all_nodes) :
                 SeqRange(find_loop(connectivity_graph, order, 1, {}, <<>>))
                     = SeqRange(report.connected_components)
    /\ phases # <<>> =>
          /\ PartitionOfNodes(components, analyze_connectivity(components))
          /\ \A order \in Orders(RefNodes(components)) :
                 SeqRange(analyze_loop(components, order, 1, {}, <<>>))
                     = SeqRange(analyze_connectivity(components))
          /\ error.type = "FloatingNetwork" =>
                 {{error.networks[k].nodes[i] :
                      i \in Indices(error.networks[k].nodes)} :
                         k \in Indices(error.networks)}
                     = SeqRange(analyze_connectivity(components))

\* Three networks, one of them a lone Ground on node 0, seen by both.
C24_Witness ==
    /\ Validated
    /\ phases # <<>>
    /\ v_components = <<Wire("W1", 1, 2), Wire("W1", 3, 3), Ground("GND", 0)>>
    /\ components = v_components
    /\ SeqRange(report.connected_components) = {{0}, {1, 2}, {3}}
    /\ error.type = "FloatingNetwork"
    /\ Len(error.networks) = 3

(***************************************************************************)
(* The currents calculate_currents reports                                 *)
(***************************************************************************)
\* calculate_currents has returned for a voltage map of the caller's.
Supplied == currents.type = "map" /\ "node_voltages" \in DOMAIN currents

\* The voltage a map gives a node, 0 for a node it does not have.
RefVoltage(nv, node) == IF node \in DOMAIN nv THEN nv[node] ELSE RatZero

\* The components whose name no later component of the list has.
LastOfName(comps) ==
    {i \in Indices(comps) :
        \A j \in Indices(comps) : comps[j].name = comps[i].name => j <= i}

BothSaw == Validated /\ phases # <<>> /\ v_components = components

\* C26: for every list, validate_circuit reports is_valid = True iff solve
\* does not raise the floating-network error, and the two connectivity
\* analyses find the same networks.
C26_ValidatorAgreesWithSolver ==
    BothSaw =>
        /\ report.is_valid <=> error.type # "FloatingNetwork"
        /\ analyze_connectivity(components) = report.connected_components
        /\ error.type = "FloatingNetwork" =>
               /\ Len(error.networks) = Len(report.connected_components)
               /\ \A k \in Indices(error.networks) :
                      error.networks[k].nodes
                          = SortedSeq(report.connected_components[k])

\* Both reject the floating circuit of the tests, with the same three
\* networks.
C26_Witness ==
    /\ BothSaw
    /\ components = FloatingCircuit
    /\ ~report.is_valid
    /\ error.type = "FloatingNetwork"
    /\ Len(error.networks) = 3

(***************************************************************************)
(* A solve call that raises                                                *)
(***************************************************************************)
NamesOf(comps) == {comps[i].name : i \in Indices(comps)}

\* C27: a solve call that raises the floating-network error leaves the node
\* map, the voltage-source list, the node count and the retained source
\* currents as they were and stores the rejected list; calculate_currents
\* called afterwards reports on the components of the rejected list.
C27_RaiseKeepsAllButComponents ==
    [][/\ (todo' # todo /\ error'.type = "FloatingNetwork") =>
              /\ node_map' = node_map
              /\ voltage_sources' = voltage_sources
              /\ node_count' = node_count
              /\ num_voltage_sources' = num_voltage_sources
              /\ voltage_source_currents' = voltage_source_currents
              /\ components' = Head(todo)
       /\ (currents' # currents /\ currents'.type = "map"
              /\ error.type = "FloatingNetwork") =>
              /\ components' = components
              /\ DOMAIN currents'.map = NamesOf(components)]_vars

\* After a successful solve of the simple circuit, a wire and a lone ground
\* are rejected: the node map is still that of the simple circuit, and
\* the currents are those of the wire and the ground.
C27_Witness ==
    /\ error.type = "FloatingNetwork"
    /\ components = <<Wire("W1", 1, 2), Ground("GND", 3)>>
    /\ DOMAIN node_map = {1}
    /\ Len(voltage_sources) = 1
    /\ Len(voltage_source_currents) = 1
    /\ Supplied
    /\ DOMAIN currents.map = {"W1", "GND"}

(***************************************************************************)
(* One entry per name                                                      *)
(***************************************************************************)
\* The voltage map the last calculate_currents call was given.
GivenVoltages(cur, volts) ==
    IF "node_voltages" \in DOMAIN cur THEN cur.node_voltages ELSE volts.map

\* The current of one component by its kind: Ohm's law for a resistor with
\* a resistance other than 0, and 0 for everything else.
RefCurrent(c, nv) ==
    IF c.kind = "Resistor" /\ c.resistance # 0
    THEN RatDivInt(RatSub(RefVoltage(nv, c.nodes[1]),
                          RefVoltage(nv, c.nodes[2])), c.resistance)
    ELSE RatZero

\* C28: calculate_currents returns one entry per distinct name among the
\* components of the most recent solve call, Ground and Wire included; a
\* Ground or a Wire is reported with 0 whatever its terminals' voltages;
\* the entry of a name several components share is the value of the last
\* of them in list order.
C28_OneEntryPerName ==
    [][/\ todo' # todo => components' = Head(todo)
       /\ todo' = todo => components' = components
       /\ currents'.type = "map" =>
             LET nv == GivenVoltages(currents', voltages')
             IN /\ DOMAIN currents'.map = NamesOf(components')
                /\ \A i \in LastOfName(components') :
                       LET c == components'[i]
                       IN /\ RatEq(currents'.map[c.name], RefCurrent(c, nv))
                          /\ c.kind \in {"Ground", "Wire"} =>
                                 RatEq(currents'.map[c.name], RatZero)]_vars

\* A resistor and a wire of the same name: the entry is the wire's 0,
\* although the resistor carries 3 mA, and the wire's terminals differ by
\* 3 V.
C28_Witness ==
    /\ Supplied
    /\ components = <<Resistor("R1", 1, 2, 1000), Wire("R1", 0, 1)>>
    /\ DOMAIN currents.node_voltages = {0, 1, 2}
    /\ RatEq(currents.node_voltages[0], RatInt(2))
    /\ RatEq(currents.node_voltages[1], RatInt(5))
    /\ RatEq(currents.node_voltages[2], RatInt(8))
    /\ DOMAIN currents.map = {"R1"}
    /\ RatEq(currents.map["R1"], RatZero)

(***************************************************************************)
(* How many suggestions                                                    *)
(***************************************************************************)
\* C29: validate_circuit makes at most two suggestions, and none when no
\* network touches a voltage source or when every network touches one, so
\* that an invalid report can have no suggestion; a network that touches a
\* source and a Ground counts as a power network: no suggestion leads to
\* it, and every suggestion starts from a network with a source.
C29_SuggestionCount ==
    Validated =>
        LET ccs == SeqRange(report.connected_components)
            powered == {X \in ccs : RefTouchedBy(v_components, X, "PowerSupply")}
        IN /\ Len(report.suggestions) <= 2
           /\ (powered = {} \/ powered = ccs) => report.suggestions = <<>>
           /\ \A i \in Indices(report.suggestions) :
                 /\ SeqRange(report.suggestions[i].from_nodes) \in powered
                 /\ SeqRange(report.suggestions[i].to_nodes) \in ccs \ powered

\* Two networks, each with its own source: the report is invalid and
\* suggests nothing.
C29_Witness ==
    /\ Validated
    /\ v_components = <<PowerSupply("VS1", 0, 1, 5), PowerSupply("VS1", 2, 3, 5)>>
    /\ ~report.is_valid
    /\ Len(report.connected_components) = 2
    /\ report.suggestions = <<>>

(***************************************************************************)
(* The editor's node numbers                                               *)
(***************************************************************************)
\* The numbering is injective and its numbers are exactly 1..next - 1.
NumberedFromOne(map, next) ==
    /\ \A p \in DOMAIN map : \A q \in DOMAIN map : map[p] = map[q] => p = q
    /\ \A p \in DOMAIN map : map[p] >= 1
    /\ {map[p] : p \in DOMAIN map} = 1..(next - 1)

====
